---------------------------- MODULE Spec2Model ----------------------------
(***************************************************************************)
(* A model of the cgroup hierarchy discovery (src/src/fs/hierarchies.rs)   *)
(* and of the devices controller (src/src/fs/devices.rs).                  *)
(*                                                                         *)
(* Text is modelled at the level of characters: a Rust &str / String is a  *)
(* sequence of one-character strings, so that splitting, trimming,         *)
(* formatting and parsing are computed the way the code computes them.     *)
(*                                                                         *)
(* The three components share no state.  Each has its own next-state       *)
(* relation and specification:                                             *)
(*   Spec    the devices controller (apply, allow_device, deny_device,     *)
(*           allowed_devices);                                             *)
(*   SpecV1  the per-controller hierarchy V1 and the process mount table;  *)
(*   SpecV2  the unified hierarchy V2 and its cgroup.controllers file.     *)
(***************************************************************************)
EXTENDS Integers, Sequences, FiniteSets, TLC

(***************************************************************************)
(* Bounds of the model.                                                    *)
(***************************************************************************)
\* device numbers passed to allow_device / deny_device range over
\* -MaxNum .. MaxNum (two-digit and negative values included)
MaxNum == 10
\* longest device rule sequence of a policy handed to apply
MaxRules == 3
\* most lines of a multi-line devices.list
MaxLines == 3
\* most pieces (controller names, blanks) a cgroup.controllers file is made of
MaxPieces == 4
\* most lines of the process mount table
MaxMounts == 2
\* longest permission string handed to DevicePermissions::from_str
MaxPermLen == 4

VARIABLES
    \* ---- devices controller ----
    ctrl,       \* the DevicesController: [base, path]
    op,         \* the operation called last ("none" before the first call)
    pc,         \* "idle": no call is running; "apply": apply's loop is
                \* running; "returned": the call has returned and its
                \* caller has yet to take the result
    rules,      \* the device rule sequence of the call (a single rule for
                \* a direct allow_device / deny_device call)
    idx,        \* apply: 1-based index of the next rule of the loop
    listFile,   \* allowed_devices: the text read from devices.list
    log,        \* the file operations issued by the call, in order
    result,     \* the value returned by the call
    \* ---- hierarchy V1 ----
    mounts,     \* /proc/self/mountinfo now: a sequence of lines
    v1,         \* the V1 instance: None before V1::new(), else
                \* Some([mountinfo |-> its snapshot])
    v1seen,     \* the lines V1::new() read from the mount table, None
                \* before V1::new()
    v1query,    \* the last query made on the instance: its name and
                \* the controller asked for
    v1result,   \* what the query returned
    \* ---- hierarchy V2 ----
    v2file,     \* what reading cgroup.controllers gave to the running
                \* call of V2::subsystems(), None when no call was made
    v2result,   \* Some(what V2::subsystems() returned), None likewise
    \* ---- parsers and conversions called on their own ----
    call,       \* the function called last and its argument:
                \* [name, arg], name = "none" when no call was made
    fnRet       \* what the call returned

devVars == <<ctrl, op, pc, rules, idx, listFile, log, result>>
v1Vars == <<mounts, v1, v1seen, v1query, v1result>>
v2Vars == <<v2file, v2result>>
fnVars == <<call, fnRet>>
vars == <<ctrl, op, pc, rules, idx, listFile, log, result,
          mounts, v1, v1seen, v1query, v1result, v2file, v2result,
          call, fnRet>>

(***************************************************************************)
(* Rust's Option and Result.                                               *)
(***************************************************************************)
None == <<>>
Some(x) == <<x>>

NoError == [kind |-> "none", path |-> <<>>, data |-> <<>>, cause |-> "none"]
Ok(v) == [ok |-> TRUE, val |-> v, err |-> NoError]
Err(e) == [ok |-> FALSE, val |-> <<>>, err |-> e]

\* Error::new(kind) and Error::with_cause(kind, cause)
Error_new(kind) ==
    [kind |-> kind, path |-> <<>>, data |-> <<>>, cause |-> "none"]
Error_with_cause(kind, path, data, cause) ==
    [kind |-> kind, path |-> path, data |-> data, cause |-> cause]

(***************************************************************************)
(* The standard library's string operations, as the code uses them.        *)
(***************************************************************************)
\* White_Space characters that occur in the modelled files
WhiteSpace == {" ", "\n", "\t", "\r"}

RECURSIVE SplitChars(_, _, _, _)
SplitChars(s, seps, i, cur) ==
    IF i > Len(s) THEN <<cur>>
    ELSE IF s[i] \in seps
         THEN <<cur>> \o SplitChars(s, seps, i + 1, <<>>)
         ELSE SplitChars(s, seps, i + 1, Append(cur, s[i]))

\* str::split on a character or a set of characters: one more piece than
\* there are separators, empty pieces kept
str_split(s, seps) == SplitChars(s, seps, 1, <<>>)

RECURSIVE SplitPat(_, _, _, _)
SplitPat(s, pat, i, start) ==
    IF i + Len(pat) - 1 > Len(s) THEN <<SubSeq(s, start, Len(s))>>
    ELSE IF SubSeq(s, i, i + Len(pat) - 1) = pat
         THEN <<SubSeq(s, start, i - 1)>>
                  \o SplitPat(s, pat, i + Len(pat), i + Len(pat))
         ELSE SplitPat(s, pat, i + 1, start)

\* str::split on a string pattern: non-overlapping matches, left to right
str_split_str(s, pat) == SplitPat(s, pat, 1, 1)

RECURSIVE TrimStart(_)
TrimStart(s) ==
    IF s # <<>> /\ s[1] \in WhiteSpace THEN TrimStart(Tail(s)) ELSE s

RECURSIVE TrimEnd(_)
TrimEnd(s) ==
    IF s # <<>> /\ s[Len(s)] \in WhiteSpace
    THEN TrimEnd(SubSeq(s, 1, Len(s) - 1)) ELSE s

\* str::trim
str_trim(s) == TrimEnd(TrimStart(s))

\* one line of str::lines: the "\n" is dropped, and a "\r" right before it
StripLineEnd(l) ==
    IF l # <<>> /\ l[Len(l)] = "\r" THEN SubSeq(l, 1, Len(l) - 1) ELSE l

RECURSIVE LinesFrom(_, _, _)
LinesFrom(s, i, cur) ==
    IF i > Len(s) THEN (IF cur = <<>> THEN <<>> ELSE <<cur>>)
    ELSE IF s[i] = "\n"
         THEN <<StripLineEnd(cur)>> \o LinesFrom(s, i + 1, <<>>)
         ELSE LinesFrom(s, i + 1, Append(cur, s[i]))

\* str::lines: split after each "\n"; a last line without "\n" is kept as
\* it is, and no empty line follows a final "\n"
str_lines(s) == LinesFrom(s, 1, <<>>)

DigitChars == <<"0", "1", "2", "3", "4", "5", "6", "7", "8", "9">>
IsDigit(c) == \E d \in 1..10 : DigitChars[d] = c
DigitValue(c) == (CHOOSE d \in 1..10 : DigitChars[d] = c) - 1

RECURSIVE FmtNat(_)
FmtNat(n) ==
    IF n < 10 THEN <<DigitChars[n + 1]>>
    ELSE FmtNat(n \div 10) \o <<DigitChars[(n % 10) + 1]>>

\* format!("{}", n) of an i64
i64_to_string(n) == IF n < 0 THEN <<"-">> \o FmtNat(0 - n) ELSE FmtNat(n)

RECURSIVE DigitsValue(_, _)
DigitsValue(s, acc) ==
    IF s = <<>> THEN acc
    ELSE DigitsValue(Tail(s), acc * 10 + DigitValue(s[1]))

\* str::parse::<i64>: an optional sign, then one or more decimal digits.
\* The tokens of the model are far shorter than the 19 digits of i64::MAX,
\* so the overflow error of the library is not reachable here.
i64_from_str(s) ==
    LET digits == IF s # <<>> /\ s[1] \in {"+", "-"} THEN Tail(s) ELSE s
    IN  IF digits = <<>> \/ \E i \in 1..Len(digits) : ~IsDigit(digits[i])
        THEN Err(Error_new("ParseIntError"))
        ELSE IF s[1] = "-" THEN Ok(0 - DigitsValue(digits, 0))
             ELSE Ok(DigitsValue(digits, 0))

\* Path::join(name).display().to_string() for a relative file name
Path_join(p, name) ==
    IF p = <<>> THEN name
    ELSE IF p[Len(p)] = "/" THEN p \o name
    ELSE p \o <<"/">> \o name

(***************************************************************************)
(* devices.rs: DeviceType and DevicePermissions.                           *)
(***************************************************************************)
DeviceTypes == {"All", "Char", "Block"}
DevicePerms == {"Read", "Write", "MkNod"}

DeviceType_to_char(t) ==
    CASE t = "All" -> "a"
      [] t = "Char" -> "c"
      [] t = "Block" -> "b"

\* c is an Option<char>
DeviceType_from_char(c) ==
    IF c = Some("a") THEN Some("All")
    ELSE IF c = Some("c") THEN Some("Char")
    ELSE IF c = Some("b") THEN Some("Block")
    ELSE None

DevicePermissions_to_char(p) ==
    CASE p = "Read" -> "r"
      [] p = "Write" -> "w"
      [] p = "MkNod" -> "m"

DevicePermissions_from_char(c) ==
    IF c = "r" THEN Some("Read")
    ELSE IF c = "w" THEN Some("Write")
    ELSE IF c = "m" THEN Some("MkNod")
    ELSE None

\* the loop of from_str leaving out the characters it does not know
RECURSIVE FromStrLoop_skip_unknown(_, _)
FromStrLoop_skip_unknown(s, v) ==
    IF s = <<>> THEN Ok(v)
    ELSE LET perm == DevicePermissions_from_char(s[1])
         IN  IF perm = None THEN FromStrLoop_skip_unknown(Tail(s), v)
             ELSE FromStrLoop_skip_unknown(Tail(s), Append(v, perm[1]))

\* the loop of from_str: `for e in s.chars()`
RECURSIVE FromStrLoop(_, _)
FromStrLoop(s, v) ==
    IF s = <<>> THEN Ok(v)
    ELSE LET perm == DevicePermissions_from_char(s[1])
         IN  IF perm = None THEN Err(Error_new("ParseError"))
             ELSE FromStrLoop(Tail(s), Append(v, perm[1]))

\* from_str refusing the empty string, as is_valid does
DevicePermissions_from_str_nonempty(s) ==
    IF s = <<>> THEN Err(Error_new("ParseError")) ELSE FromStrLoop(s, <<>>)

\* DevicePermissions::from_str: the empty string gives the empty list
DevicePermissions_from_str(s) ==
    IF s = <<>> THEN Ok(<<>>) ELSE FromStrLoop(s, <<>>)

(***************************************************************************)
(* devices.rs: rendering and writing one rule.                             *)
(***************************************************************************)
F_devices_allow ==
    <<"d", "e", "v", "i", "c", "e", "s", ".", "a", "l", "l", "o", "w">>
F_devices_deny ==
    <<"d", "e", "v", "i", "c", "e", "s", ".", "d", "e", "n", "y">>
F_devices_list ==
    <<"d", "e", "v", "i", "c", "e", "s", ".", "l", "i", "s", "t">>

\* An entry of the log of file operations
OpenEvent(path, res) ==
    [call |-> "open", path |-> path, data |-> <<>>, res |-> res]
WriteEvent(path, data, res) ==
    [call |-> "write", path |-> path, data |-> data, res |-> res]
ReadEvent(path, data, res) ==
    [call |-> "read", path |-> path, data |-> data, res |-> res]

\* ControllerInternal::open_path(p, w): opens the file p under the
\* controller's path.  Its code is outside the files modelled here; an
\* open that fails returns an error of its own making, which the callers
\* pass on unchanged.
open_path(self, p, w, outcome) ==
    IF outcome = "ok" THEN Ok(Path_join(self.path, p))
    ELSE Err(Error_with_cause("OpenFailed", Path_join(self.path, p),
                              <<>>, outcome))

\* perm.iter().map(DevicePermissions::to_char).collect::<String>()
RECURSIVE PermChars(_)
PermChars(perm) ==
    IF perm = <<>> THEN <<>>
    ELSE <<DevicePermissions_to_char(perm[1])>> \o PermChars(Tail(perm))

\* io = [open, write] says how the two file operations of the call end.
\* The value is [res, events]: what the call returns and the file
\* operations it issued.
allow_device(self, devtype, major, minor, perm, io) ==
    LET perms == PermChars(perm)
        minorS == IF minor = -1 THEN <<"*">> ELSE i64_to_string(minor)
        majorS == IF major = -1 THEN <<"*">> ELSE i64_to_string(major)
        final_str == <<DeviceType_to_char(devtype), " ">> \o majorS
                         \o <<":">> \o minorS \o <<" ">> \o perms
        file == open_path(self, F_devices_allow, TRUE, io.open)
        target == Path_join(self.path, F_devices_allow)
    IN  IF ~file.ok
        THEN [res |-> Err(file.err),
              events |-> <<OpenEvent(target, io.open)>>]
        ELSE IF io.write = "ok"
        THEN [res |-> Ok(<<>>),
              events |-> <<OpenEvent(target, "ok"),
                           WriteEvent(file.val, final_str, "ok")>>]
        ELSE [res |-> Err(Error_with_cause("WriteFailed",
                              Path_join(self.path, F_devices_allow),
                              final_str, io.write)),
              events |-> <<OpenEvent(target, "ok"),
                           WriteEvent(file.val, final_str, io.write)>>]

\* deny_device reporting a failed write with the path of devices.allow
deny_device_allow_path(self, devtype, major, minor, perm, io) ==
    LET perms == PermChars(perm)
        minorS == IF minor = -1 THEN <<"*">> ELSE i64_to_string(minor)
        majorS == IF major = -1 THEN <<"*">> ELSE i64_to_string(major)
        final_str == <<DeviceType_to_char(devtype), " ">> \o majorS
                         \o <<":">> \o minorS \o <<" ">> \o perms
        file == open_path(self, F_devices_deny, TRUE, io.open)
        target == Path_join(self.path, F_devices_deny)
    IN  IF ~file.ok
        THEN [res |-> Err(file.err),
              events |-> <<OpenEvent(target, io.open)>>]
        ELSE IF io.write = "ok"
        THEN [res |-> Ok(<<>>),
              events |-> <<OpenEvent(target, "ok"),
                           WriteEvent(file.val, final_str, "ok")>>]
        ELSE [res |-> Err(Error_with_cause("WriteFailed",
                              Path_join(self.path, F_devices_allow),
                              final_str, io.write)),
              events |-> <<OpenEvent(target, "ok"),
                           WriteEvent(file.val, final_str, io.write)>>]

deny_device(self, devtype, major, minor, perm, io) ==
    LET perms == PermChars(perm)
        minorS == IF minor = -1 THEN <<"*">> ELSE i64_to_string(minor)
        majorS == IF major = -1 THEN <<"*">> ELSE i64_to_string(major)
        final_str == <<DeviceType_to_char(devtype), " ">> \o majorS
                         \o <<":">> \o minorS \o <<" ">> \o perms
        file == open_path(self, F_devices_deny, TRUE, io.open)
        target == Path_join(self.path, F_devices_deny)
    IN  IF ~file.ok
        THEN [res |-> Err(file.err),
              events |-> <<OpenEvent(target, io.open)>>]
        ELSE IF io.write = "ok"
        THEN [res |-> Ok(<<>>),
              events |-> <<OpenEvent(target, "ok"),
                           WriteEvent(file.val, final_str, "ok")>>]
        ELSE [res |-> Err(Error_with_cause("WriteFailed",
                              Path_join(self.path, F_devices_deny),
                              final_str, io.write)),
              events |-> <<OpenEvent(target, "ok"),
                           WriteEvent(file.val, final_str, io.write)>>]

(***************************************************************************)
(* devices.rs: reading the list of allowed devices.                        *)
(***************************************************************************)
\* parse_device_number without the case of the wildcard
parse_device_number_no_wildcard(s) ==
    LET n == i64_from_str(s)
    IN  IF n.ok THEN Ok(n.val) ELSE Err(Error_new("ParseError"))

parse_device_number(s) ==
    IF s = <<"*">> THEN Ok(-1)
    ELSE LET n == i64_from_str(s)
         IN  IF n.ok THEN Ok(n.val) ELSE Err(Error_new("ParseError"))

\* parts[0].chars().next()
FirstChar(s) == IF s = <<>> THEN None ELSE Some(s[1])

parse_device_line(line, allow) ==
    LET parts == str_split(line, {" ", ":"})
    IN  IF Len(parts) # 4 THEN Err(Error_new("ParseError"))
        ELSE LET devtype == DeviceType_from_char(FirstChar(parts[1]))
                 major == parse_device_number(parts[2])
                 minor == parse_device_number(parts[3])
                 access == DevicePermissions_from_str(parts[4])
             IN  IF devtype = None THEN Err(Error_new("ParseError"))
                 ELSE IF ~major.ok THEN Err(major.err)
                 ELSE IF ~minor.ok THEN Err(minor.err)
                 ELSE IF ~access.ok THEN Err(access.err)
                 ELSE Ok([allow |-> allow, devtype |-> devtype[1],
                          major |-> major.val, minor |-> minor.val,
                          access |-> access.val])

\* collecting the lines that parse and dropping the others
RECURSIVE CollectLinesLenient(_, _)
CollectLinesLenient(lines, acc) ==
    IF lines = <<>> THEN Ok(acc)
    ELSE LET r == parse_device_line(lines[1], TRUE)
         IN  IF r.ok THEN CollectLinesLenient(Tail(lines), Append(acc, r.val))
             ELSE CollectLinesLenient(Tail(lines), acc)

\* Iterator<Item = Result<T>>::collect::<Result<Vec<T>>>(): the first error
\* in order, or all the values
RECURSIVE CollectLines(_, _)
CollectLines(lines, acc) ==
    IF lines = <<>> THEN Ok(acc)
    ELSE LET r == parse_device_line(lines[1], TRUE)
         IN  IF r.ok THEN CollectLines(Tail(lines), Append(acc, r.val))
             ELSE Err(r.err)

\* io = [open, read] says how the two file operations end; content is the
\* text of devices.list
allowed_devices(self, content, io) ==
    LET f == open_path(self, F_devices_list, FALSE, io.open)
        target == Path_join(self.path, F_devices_list)
    IN  IF ~f.ok
        THEN [res |-> Err(f.err), events |-> <<OpenEvent(target, io.open)>>]
        ELSE IF io.read # "ok"
        THEN [res |-> Err(Error_with_cause("ReadFailed", F_devices_list,
                                           <<>>, io.read)),
              events |-> <<OpenEvent(target, "ok"),
                           ReadEvent(f.val, <<>>, io.read)>>]
        ELSE [res |-> CollectLines(str_lines(content), <<>>),
              events |-> <<OpenEvent(target, "ok"),
                           ReadEvent(f.val, content, "ok")>>]

(***************************************************************************)
(* The inputs of the devices controller's operations.                      *)
(***************************************************************************)
\* outcomes of a file operation: "ok" or the I/O error it fails with
OpenErrors == {"ENOENT"}
WriteErrors == {"EPERM", "EINVAL"}
ReadErrors == {"EIO"}
WriteIo ==
    {[open |-> "ok", write |-> w] : w \in {"ok"} \cup WriteErrors}
        \cup {[open |-> e, write |-> "ok"] : e \in OpenErrors}
ReadIo ==
    {[open |-> "ok", read |-> r] : r \in {"ok"} \cup ReadErrors}
        \cup {[open |-> e, read |-> "ok"] : e \in OpenErrors}

\* DevicesController::new(point, root)
DevicesController_new(point, root) == [base |-> root, path |-> point]
Controllers0 ==
    {DevicesController_new(<<"/", "d">>, <<"/">>),
     DevicesController_new(<<"/", "d", "/", "g">>, <<"/", "d">>)}

DevNumbers == (0 - MaxNum)..MaxNum
AccessLists ==
    {<<>>, <<"Read">>, <<"Write", "Read">>, <<"Read", "Write", "MkNod">>,
     <<"MkNod", "MkNod">>}
DeviceResource(allow, devtype, major, minor, access) ==
    [allow |-> allow, devtype |-> devtype, major |-> major,
     minor |-> minor, access |-> access]

\* the rules the policies handed to apply are made of
PolicyRules ==
    {DeviceResource(a, t, n[1], n[2], n[3]) :
        a \in BOOLEAN, t \in {"All", "Char"},
        n \in {<<-1, -1, <<"Read", "Write", "MkNod">>>>, <<1, 6, <<"Read">>>>}}
SeqsUpTo(S, n) == UNION {[1..k -> S] : k \in 0..n}
Policies == SeqsUpTo(PolicyRules, MaxRules)

\* devices.list of one line: a type token, a major token, a minor token and
\* a permission token, separated as the kernel separates them
TypeTokens == {<<"a">>, <<"c">>, <<"b">>, <<"c", "c">>, <<"x">>, <<>>}
NumTokens ==
    {<<"*">>, <<"1">>, <<"-", "1">>, <<"+", "5">>, <<"0", "0", "7">>,
     <<"1", "0">>, <<"1", "x">>, <<"-">>, <<"*", "*">>, <<>>}
PermTokens ==
    {<<>>, <<"r">>, <<"r", "w", "m">>, <<"w", "r">>, <<"r", "q">>}
OneLineFiles ==
    {t \o <<" ">> \o ma \o <<":">> \o mi \o <<" ">> \o pe :
        t \in TypeTokens, ma \in NumTokens, mi \in NumTokens,
        pe \in PermTokens}

\* devices.list of several lines, well-formed and not
SampleLines ==
    {<<"c", " ", "1", ":", "6", " ", "r">>,
     <<"c", " ", "1", ":", "6", " ", "r", "\r">>,
     <<"a", " ", "*", ":", "*", " ", "r", "w", "m">>,
     <<"b", " ", "8", ":", "0">>,
     <<"c", " ", "1", ":", "6", " ", "r", " ", "w">>,
     <<"c", " ", "1", ":", "x", " ", "r">>,
     <<>>}
RECURSIVE JoinLines(_, _)
JoinLines(ls, last) ==
    IF ls = <<>> THEN <<>>
    ELSE IF Len(ls) = 1 THEN ls[1] \o last
    ELSE ls[1] \o <<"\n">> \o JoinLines(Tail(ls), last)
ManyLineFiles ==
    {JoinLines(ls, last) :
        ls \in SeqsUpTo(SampleLines, MaxLines), last \in {<<>>, <<"\n">>}}
ListFiles == OneLineFiles \cup ManyLineFiles

(***************************************************************************)
(* The devices controller: its state and operations.                       *)
(***************************************************************************)
\* the value of result while no call has returned
NoResult == [ok |-> FALSE, val |-> <<>>, err |-> NoError]

InitDevices ==
    /\ ctrl \in Controllers0
    /\ op = "none"
    /\ pc = "idle"
    /\ rules = <<>>
    /\ idx = 1
    /\ listFile = <<>>
    /\ log = <<>>
    /\ result = NoResult

\* a caller calls apply(res) with res.devices.devices = R
ApplyCall(R) ==
    /\ pc = "idle"
    /\ op' = "apply"
    /\ pc' = "apply"
    /\ rules' = R
    /\ idx' = 1
    /\ log' = <<>>
    /\ result' = NoResult
    /\ UNCHANGED <<ctrl, listFile>>

\* apply_rule with the two branches exchanged
apply_rule_swapped(self, i, io) ==
    IF i.allow
    THEN deny_device(self, i.devtype, i.major, i.minor, i.access, io)
    ELSE allow_device(self, i.devtype, i.major, i.minor, i.access, io)

\* the body of apply's loop for the rule i
apply_rule(self, i, io) ==
    IF i.allow
    THEN allow_device(self, i.devtype, i.major, i.minor, i.access, io)
    ELSE deny_device(self, i.devtype, i.major, i.minor, i.access, io)

\* ApplyIter without the `?`: the error of a rule is dropped and the loop
\* goes on
ApplyIterIgnoreErr(io) ==
    /\ pc = "apply"
    /\ idx <= Len(rules)
    /\ LET r == apply_rule(ctrl, rules[idx], io)
       IN  log' = log \o r.events
    /\ idx' = idx + 1
    /\ UNCHANGED <<ctrl, op, pc, result, rules, listFile>>

\* one iteration of `for i in &res.devices`: the `?` returns the error
ApplyIter(io) ==
    /\ pc = "apply"
    /\ idx <= Len(rules)
    /\ LET r == apply_rule(ctrl, rules[idx], io)
       IN  /\ log' = log \o r.events
           /\ IF r.res.ok
              THEN /\ idx' = idx + 1
                   /\ UNCHANGED <<pc, result>>
              ELSE /\ pc' = "returned"
                   /\ result' = Err(r.res.err)
                   /\ UNCHANGED idx
    /\ UNCHANGED <<ctrl, op, rules, listFile>>

\* the loop is over: Ok(())
ApplyReturn ==
    /\ pc = "apply"
    /\ idx > Len(rules)
    /\ pc' = "returned"
    /\ result' = Ok(<<>>)
    /\ UNCHANGED <<ctrl, op, rules, idx, listFile, log>>

\* a caller calls allow_device directly
AllowDevice(devtype, major, minor, perm, io) ==
    /\ pc = "idle"
    /\ LET r == allow_device(ctrl, devtype, major, minor, perm, io)
       IN  /\ log' = r.events
           /\ result' = r.res
    /\ op' = "allow_device"
    /\ rules' = <<DeviceResource(TRUE, devtype, major, minor, perm)>>
    /\ idx' = 1
    /\ pc' = "returned"
    /\ UNCHANGED <<ctrl, listFile>>

\* a caller calls deny_device directly
DenyDevice(devtype, major, minor, perm, io) ==
    /\ pc = "idle"
    /\ LET r == deny_device(ctrl, devtype, major, minor, perm, io)
       IN  /\ log' = r.events
           /\ result' = r.res
    /\ op' = "deny_device"
    /\ rules' = <<DeviceResource(FALSE, devtype, major, minor, perm)>>
    /\ idx' = 1
    /\ pc' = "returned"
    /\ UNCHANGED <<ctrl, listFile>>

\* a caller calls allowed_devices while devices.list holds content
AllowedDevices(content, io) ==
    /\ pc = "idle"
    /\ LET r == allowed_devices(ctrl, content, io)
       IN  /\ log' = r.events
           /\ result' = r.res
    /\ op' = "allowed_devices"
    /\ listFile' = content
    /\ rules' = <<>>
    /\ idx' = 1
    /\ pc' = "returned"
    /\ UNCHANGED ctrl

\* the caller takes the result; the controller is ready for the next call
TakeResult ==
    /\ pc = "returned"
    /\ pc' = "idle"
    /\ op' = "none"
    /\ rules' = <<>>
    /\ idx' = 1
    /\ listFile' = <<>>
    /\ log' = <<>>
    /\ result' = NoResult
    /\ UNCHANGED ctrl

InitV1 ==
    /\ mounts = <<>>
    /\ v1 = None
    /\ v1seen = None
    /\ v1query = [name |-> "none", kind |-> "none"]
    /\ v1result = <<>>

InitV2 ==
    /\ v2file = None
    /\ v2result = None

\* no parser or conversion has been called on its own
NoCall == [name |-> "none", arg |-> <<>>]
InitFn ==
    /\ call = NoCall
    /\ fnRet = <<>>

Init == InitDevices /\ InitV1 /\ InitV2 /\ InitFn

\* The calls a caller can make on an idle controller, with every input.
\* (The guard stands before the quantifier so that the inputs are only
\* enumerated where a call can start.)  The hierarchies are left alone.
CallApply ==
    /\ pc = "idle"
    /\ \E R \in Policies : ApplyCall(R)
    /\ UNCHANGED <<v1Vars, v2Vars, fnVars>>
StepApply ==
    /\ pc = "apply"
    /\ \E io \in WriteIo : ApplyIter(io)
    /\ UNCHANGED <<v1Vars, v2Vars, fnVars>>
ReturnApply ==
    /\ ApplyReturn
    /\ UNCHANGED <<v1Vars, v2Vars, fnVars>>
CallAllowDevice ==
    /\ pc = "idle"
    /\ \E t \in DeviceTypes, ma \in DevNumbers, mi \in DevNumbers,
          pe \in AccessLists, io \in WriteIo : AllowDevice(t, ma, mi, pe, io)
    /\ UNCHANGED <<v1Vars, v2Vars, fnVars>>
CallDenyDevice ==
    /\ pc = "idle"
    /\ \E t \in DeviceTypes, ma \in DevNumbers, mi \in DevNumbers,
          pe \in AccessLists, io \in WriteIo : DenyDevice(t, ma, mi, pe, io)
    /\ UNCHANGED <<v1Vars, v2Vars, fnVars>>
CallAllowedDevices ==
    /\ pc = "idle"
    /\ \E content \in ListFiles, io \in ReadIo : AllowedDevices(content, io)
    /\ UNCHANGED <<v1Vars, v2Vars, fnVars>>
ReturnToCaller ==
    /\ TakeResult
    /\ UNCHANGED <<v1Vars, v2Vars, fnVars>>

Next ==
    \/ CallApply
    \/ StepApply
    \/ ReturnApply
    \/ CallAllowDevice
    \/ CallDenyDevice
    \/ CallAllowedDevices
    \/ ReturnToCaller

Spec == Init /\ [][Next]_vars

(***************************************************************************)
(* Properties of the devices controller (checked under Spec).              *)
(***************************************************************************)
IsWrite(e) == e.call = "write"
\* the writes a call has issued so far, in order
Writes(l) == SelectSeq(l, IsWrite)
RuleFile(r) == IF r.allow THEN F_devices_allow ELSE F_devices_deny

\* C1: apply issues one write per rule, in the order of the rule sequence:
\* at every point of an apply call the writes issued so far are those of
\* the first rules of the sequence, the i-th one to devices.allow when
\* rule i allows and to devices.deny otherwise, with a payload that reads
\* back as rule i's type, major, minor and access (a rule that occurs twice
\* is written twice); when apply returns success there are as many writes
\* as rules; and for the empty sequence apply returns success without any
\* file operation.
C1_ApplyWritesRulesInOrder ==
    op = "apply" =>
        LET w == Writes(log)
        IN  /\ Len(w) <= Len(rules)
            /\ \A i \in 1..Len(w) :
                  /\ w[i].path = Path_join(ctrl.path, RuleFile(rules[i]))
                  /\ LET back == parse_device_line(w[i].data, rules[i].allow)
                     IN  back.ok /\ back.val = rules[i]
            /\ (pc = "returned" /\ result.ok) => Len(w) = Len(rules)
            /\ (pc = "returned" /\ rules = <<>>) => result.ok /\ log = <<>>

\* C1 witness: apply has returned success for a sequence of three rules
\* that denies, allows, and repeats its first rule
C1_Witness ==
    /\ op = "apply" /\ pc = "returned" /\ result.ok
    /\ Len(rules) = 3 /\ rules[1] = rules[3]
    /\ ~rules[1].allow /\ rules[2].allow
    /\ Len(Writes(log)) = 3

\* C2: a file operation of apply that fails is the last one apply issues
\* (no later rule is written, the failing write is not repeated, nothing
\* is issued to undo the earlier writes) and apply has then returned the
\* error of that operation, for a failed write WriteFailed with its path
\* and payload; the writes before it are those of the rules before the
\* failing one; apply returns success only if every operation succeeded
\* and every rule was written.
C2_ApplyStopsAtFirstFailure ==
    op = "apply" =>
        /\ \A n \in 1..Len(log) :
              log[n].res # "ok" =>
                  /\ n = Len(log)
                  /\ pc = "returned" /\ ~result.ok
                  /\ result.err.cause = log[n].res
                  /\ log[n].call = "write" =>
                        /\ result.err.kind = "WriteFailed"
                        /\ result.err.path = log[n].path
                        /\ result.err.data = log[n].data
                        /\ Len(Writes(log)) = idx
                  /\ \A m \in 1..(n - 1) : log[m].res = "ok"
        /\ (pc = "returned" /\ result.ok) =>
              /\ \A n \in 1..Len(log) : log[n].res = "ok"
              /\ Len(Writes(log)) = Len(rules)
        /\ (pc = "returned" /\ ~result.ok) =>
              log # <<>> /\ log[Len(log)].res # "ok"

\* C2 witness: apply has returned WriteFailed for the second of three rules
C2_Witness ==
    /\ op = "apply" /\ pc = "returned" /\ ~result.ok
    /\ result.err.kind = "WriteFailed"
    /\ Len(rules) = 3 /\ idx = 2 /\ Len(Writes(log)) = 2
    /\ log[2].res = "ok" /\ log[4].res \in WriteErrors

\* allowed_devices has returned after reading devices.list
ListRead ==
    /\ op = "allowed_devices" /\ pc = "returned"
    /\ Len(log) = 2 /\ log[2].call = "read" /\ log[2].res = "ok"

\* The lines of a text, from the places of its line feeds: line k runs
\* from after the (k-1)-th "\n" to before the k-th one (or to the end of
\* the text, for a last line without "\n"), less a "\r" before the "\n".
LineFeeds(s) == {i \in 1..Len(s) : s[i] = "\n"}
NumLines(s) ==
    Cardinality(LineFeeds(s))
        + (IF s # <<>> /\ s[Len(s)] # "\n" THEN 1 ELSE 0)
LineStart(s, k) ==
    IF k = 1 THEN 1
    ELSE 1 + CHOOSE i \in LineFeeds(s) :
                 Cardinality({j \in LineFeeds(s) : j < i}) = k - 2
LineStop(s, k) ==
    IF k > Cardinality(LineFeeds(s)) THEN Len(s)
    ELSE LET nl == CHOOSE i \in LineFeeds(s) :
                       Cardinality({j \in LineFeeds(s) : j < i}) = k - 1
         IN  IF nl > 1 /\ s[nl - 1] = "\r" /\ nl - 1 >= LineStart(s, k)
             THEN nl - 2 ELSE nl - 1
LineOf(s, k) == SubSeq(s, LineStart(s, k), LineStop(s, k))
Separators(l) == {i \in 1..Len(l) : l[i] \in {" ", ":"}}

\* C6: allowed_devices is all-or-nothing.  When devices.list was read: if
\* some line does not parse, in particular if it does not split on space
\* and colon into exactly 4 tokens, the call returns ParseError and no
\* DeviceResource at all; if every line parses, the call returns one
\* DeviceResource per line, in the order of the lines, each with allow =
\* TRUE.
C6_AllowedDevicesAllOrNothing ==
    ListRead =>
        LET n == NumLines(listFile)
            parsed == [k \in 1..n |-> parse_device_line(LineOf(listFile, k), TRUE)]
        IN  /\ (\E k \in 1..n :
                    \/ ~parsed[k].ok
                    \/ Cardinality(Separators(LineOf(listFile, k))) # 3)
                    => /\ ~result.ok
                       /\ result.err = Error_new("ParseError")
                       /\ result.val = <<>>
            /\ (\A k \in 1..n : parsed[k].ok)
                    => /\ result.ok
                       /\ Len(result.val) = n
                       /\ \A k \in 1..n :
                             /\ result.val[k] = parsed[k].val
                             /\ result.val[k].allow = TRUE

\* C6 witness: a devices.list of three lines whose second line alone does
\* not parse: the call has returned the error
C6_Witness ==
    /\ ListRead
    /\ NumLines(listFile) = 3
    /\ parse_device_line(LineOf(listFile, 1), TRUE).ok
    /\ ~parse_device_line(LineOf(listFile, 2), TRUE).ok
    /\ parse_device_line(LineOf(listFile, 3), TRUE).ok
    /\ ~result.ok

\* C7: round trip.  The payload allow_device writes for a rule (any type,
\* any major and minor, -1 included, any access list, the empty one
\* included) parses as a line of devices.list into that rule with allow =
\* TRUE.
C7_AllowPayloadParsesBack ==
    (op = "allow_device" /\ pc = "returned") =>
        \A n \in 1..Len(log) :
            log[n].call = "write" =>
                LET back == parse_device_line(log[n].data, TRUE)
                IN  back.ok /\ back.val = rules[1]

\* C7 witness: allow_device has written a rule with the wildcard major, a
\* negative two-digit minor and no access
C7_Witness ==
    /\ op = "allow_device" /\ pc = "returned" /\ result.ok
    /\ rules[1].major = -1 /\ rules[1].minor = 0 - MaxNum
    /\ rules[1].access = <<>>
    /\ Len(Writes(log)) = 1

\* The tokens of a line with three separators, from their places
TokenOf(l, k) ==
    LET sep(j) == CHOOSE i \in Separators(l) :
                      Cardinality({x \in Separators(l) : x < i}) = j - 1
        from == IF k = 1 THEN 1 ELSE sep(k - 1) + 1
        to == IF k = 4 THEN Len(l) ELSE sep(k) - 1
    IN  SubSeq(l, from, to)
\* A signed decimal integer: an optional sign and one or more digits
Unsigned(tok) == IF tok # <<>> /\ tok[1] \in {"+", "-"} THEN Tail(tok) ELSE tok
IsSignedDecimal(tok) ==
    /\ Unsigned(tok) # <<>>
    /\ \A i \in 1..Len(Unsigned(tok)) : Unsigned(tok)[i] \in
          {"0", "1", "2", "3", "4", "5", "6", "7", "8", "9"}
RECURSIVE Pow10(_)
Pow10(k) == IF k = 0 THEN 1 ELSE 10 * Pow10(k - 1)
RECURSIVE SumDigits(_, _)
SumDigits(d, i) ==
    IF i > Len(d) THEN 0
    ELSE DigitValue(d[i]) * Pow10(Len(d) - i) + SumDigits(d, i + 1)
SignedDecimalValue(tok) ==
    IF tok[1] = "-" THEN 0 - SumDigits(Unsigned(tok), 1)
    ELSE SumDigits(Unsigned(tok), 1)
\* the rendering of a decimal integer has no "+" and no leading zero
IsCanonical(tok) ==
    /\ IsSignedDecimal(tok)
    /\ tok[1] # "+"
    /\ Len(Unsigned(tok)) > 1 => Unsigned(tok)[1] # "0"
    /\ Unsigned(tok) = <<"0">> => tok = <<"0">>
IsNumberToken(tok) == tok = <<"*">> \/ IsSignedDecimal(tok)
NumberOf(tok) == IF tok = <<"*">> THEN -1 ELSE SignedDecimalValue(tok)
RendersAs(n, tok) ==
    IF n = -1 THEN tok = <<"*">>
    ELSE IsCanonical(tok) /\ SignedDecimalValue(tok) = n

C9_WriteFailureIsReported ==
    (op \in {"allow_device", "deny_device"} /\ pc = "returned") =>
        /\ Len(Writes(log)) <= 1
        /\ \A n \in 1..Len(log) :
              (log[n].call = "write" /\ log[n].res # "ok") =>
                  /\ n = Len(log)
                  /\ ~result.ok
                  /\ result.err.kind = "WriteFailed"
                  /\ result.err.path =
                        Path_join(ctrl.path,
                                  IF op = "allow_device" THEN F_devices_allow
                                  ELSE F_devices_deny)
                  /\ result.err.path = log[n].path
                  /\ result.err.data = log[n].data
                  /\ LET back == parse_device_line(log[n].data, rules[1].allow)
                     IN  back.ok /\ back.val = rules[1]
                  /\ result.err.cause = log[n].res
        /\ result.err.kind = "WriteFailed" =>
              log # <<>> /\ log[Len(log)].call = "write"
                         /\ log[Len(log)].res # "ok"

\* C9 witness: deny_device has returned WriteFailed caused by EINVAL
C9_Witness ==
    /\ op = "deny_device" /\ pc = "returned" /\ ~result.ok
    /\ result.err.kind = "WriteFailed" /\ result.err.cause = "EINVAL"
    /\ Len(Writes(log)) = 1

(***************************************************************************)
(* hierarchies.rs: the unified hierarchy V2.                               *)
(***************************************************************************)
UNIFIED_MOUNTPOINT ==
    <<"/", "s", "y", "s", "/", "f", "s", "/", "c", "g", "r", "o", "u", "p">>
T_cpu == <<"c", "p", "u">>
T_io == <<"i", "o">>
T_cpuset == <<"c", "p", "u", "s", "e", "t">>
T_memory == <<"m", "e", "m", "o", "r", "y">>
T_pids == <<"p", "i", "d", "s">>
T_freezer == <<"f", "r", "e", "e", "z", "e", "r">>
T_hugetlb == <<"h", "u", "g", "e", "t", "l", "b">>

\* V2::new()
V2_new == [root |-> UNIFIED_MOUNTPOINT]

\* V2::root()
V2_root(self) == self.root

\* Subsystem::K(KController::new(point, root, v2)): the variant and the
\* arguments the controller is built from
Subsystem(kind, point, root, v2) ==
    [kind |-> kind, point |-> point, root |-> root, v2 |-> v2]

\* the `match s` of V2::subsystems: the entry pushed for one name, if any
V2_match(self, name) ==
    IF name = T_cpu THEN <<Subsystem("Cpu", V2_root(self), <<>>, TRUE)>>
    ELSE IF name = T_io THEN <<Subsystem("BlkIo", V2_root(self), <<>>, TRUE)>>
    ELSE IF name = T_cpuset
         THEN <<Subsystem("CpuSet", V2_root(self), <<>>, TRUE)>>
    ELSE IF name = T_memory THEN <<Subsystem("Mem", V2_root(self), <<>>, TRUE)>>
    ELSE IF name = T_pids THEN <<Subsystem("Pid", V2_root(self), <<>>, TRUE)>>
    ELSE IF name = T_freezer
         THEN <<Subsystem("Freezer", V2_root(self), <<>>, TRUE)>>
    ELSE IF name = T_hugetlb
         THEN <<Subsystem("HugeTlb", V2_root(self), <<>>, TRUE)>>
    ELSE <<>>

\* `for s in controller_list`
RECURSIVE V2_loop(_, _)
V2_loop(self, controller_list) ==
    IF controller_list = <<>> THEN <<>>
    ELSE V2_match(self, controller_list[1])
             \o V2_loop(self, Tail(controller_list))

\* V2::subsystems without the trim of the file's content
V2_subsystems_no_trim(self, ret) ==
    IF ~ret.ok THEN <<>>
    ELSE V2_loop(self, Append(str_split(ret.val, {" "}), T_freezer))

\* V2::subsystems taking an unreadable file for an empty one
V2_subsystems_unreadable_as_empty(self, ret) ==
    LET controllers == IF ret.ok THEN str_trim(ret.val) ELSE <<>>
    IN  V2_loop(self, Append(str_split(controllers, {" "}), T_freezer))

\* V2::subsystems; ret is the Result of fs::read_to_string on
\* UNIFIED_MOUNTPOINT/cgroup.controllers
V2_subsystems(self, ret) ==
    IF ~ret.ok THEN <<>>
    ELSE LET controllers == str_trim(ret.val)
             controller_list ==
                 Append(str_split(controllers, {" "}), T_freezer)
         IN  V2_loop(self, controller_list)

\* The texts of cgroup.controllers: up to MaxPieces controller names,
\* blanks and line feeds, in any order
Pieces ==
    {T_cpu, T_io, T_cpuset, T_memory, T_pids, T_freezer, T_hugetlb,
     <<"r", "d", "m", "a">>, <<" ">>, <<"\n">>}
RECURSIVE Concat(_)
Concat(ss) == IF ss = <<>> THEN <<>> ELSE ss[1] \o Concat(Tail(ss))
ControllerFiles == {Concat(ps) : ps \in SeqsUpTo(Pieces, MaxPieces)}
\* what fs::read_to_string returns: the text, or an I/O error
FileReads ==
    {Ok(text) : text \in ControllerFiles}
        \cup {Err(Error_new(e)) : e \in {"ENOENT", "EACCES"}}

\* a caller calls subsystems() on a V2 hierarchy
V2Subsystems(ret) ==
    /\ v2result = None
    /\ v2file' = Some(ret)
    /\ v2result' = Some(V2_subsystems(V2_new, ret))

\* the caller takes the list
V2TakeResult ==
    /\ v2result # None
    /\ v2file' = None
    /\ v2result' = None

CallV2Subsystems ==
    /\ v2result = None
    /\ \E ret \in FileReads : V2Subsystems(ret)
    /\ UNCHANGED <<devVars, v1Vars, fnVars>>
ReturnV2 ==
    /\ V2TakeResult
    /\ UNCHANGED <<devVars, v1Vars, fnVars>>

NextV2 ==
    \/ CallV2Subsystems
    \/ ReturnV2

SpecV2 == Init /\ [][NextV2]_vars

(***************************************************************************)
(* hierarchies.rs: the mount table and the per-controller hierarchy V1.    *)
(***************************************************************************)
T_cgroup == <<"c", "g", "r", "o", "u", "p">>

\* parse_mountinfo_for_line keeping the first two pieces of a type of
\* three pieces or more
parse_mountinfo_for_line_two_pieces(line) ==
    LET s_values == str_split_str(line, <<" ", "-", " ">>)
    IN  IF Len(s_values) # 2 THEN None
        ELSE
        LET s0_values == str_split(str_trim(s_values[1]), {" "})
            s1_values == str_split(str_trim(s_values[2]), {" "})
        IN  IF Len(s0_values) < 6 \/ Len(s1_values) < 3 THEN None
            ELSE
            LET fs_type_values == str_split(str_trim(s1_values[1]), {"."})
            IN  Some([mount_root |-> s0_values[4],
                      mount_point |-> s0_values[5],
                      fs_type |->
                          <<fs_type_values[1],
                            IF Len(fs_type_values) >= 2
                            THEN Some(fs_type_values[2]) ELSE None>>,
                      super_opts |->
                          str_split(str_trim(s1_values[3]), {","})])

\* parse_mountinfo_for_line asking for five fields where six are needed
parse_mountinfo_for_line_five_fields(line) ==
    LET s_values == str_split_str(line, <<" ", "-", " ">>)
    IN  IF Len(s_values) # 2 THEN None
        ELSE
        LET s0_values == str_split(str_trim(s_values[1]), {" "})
            s1_values == str_split(str_trim(s_values[2]), {" "})
        IN  IF Len(s0_values) < 5 \/ Len(s1_values) < 3 THEN None
            ELSE
            LET fs_type_values == str_split(str_trim(s1_values[1]), {"."})
            IN  IF Len(fs_type_values) > 2 THEN None
                ELSE Some([mount_root |-> s0_values[4],
                           mount_point |-> s0_values[5],
                           fs_type |->
                               <<fs_type_values[1],
                                 IF Len(fs_type_values) = 2
                                 THEN Some(fs_type_values[2]) ELSE None>>,
                           super_opts |->
                               str_split(str_trim(s1_values[3]), {","})])

\* one line of /proc/self/mountinfo; None when the line has not the shape
parse_mountinfo_for_line(line) ==
    LET s_values == str_split_str(line, <<" ", "-", " ">>)
    IN  IF Len(s_values) # 2 THEN None
        ELSE
        LET s0_values == str_split(str_trim(s_values[1]), {" "})
            s1_values == str_split(str_trim(s_values[2]), {" "})
        IN  IF Len(s0_values) < 6 \/ Len(s1_values) < 3 THEN None
            ELSE
            LET mount_point == s0_values[5]
                mount_root == s0_values[4]
                fs_type_values == str_split(str_trim(s1_values[1]), {"."})
                super_opts == str_split(str_trim(s1_values[3]), {","})
            IN  IF Len(fs_type_values) = 1
                THEN Some([mount_root |-> mount_root,
                           mount_point |-> mount_point,
                           fs_type |-> <<fs_type_values[1], None>>,
                           super_opts |-> super_opts])
                ELSE IF Len(fs_type_values) = 2
                THEN Some([mount_root |-> mount_root,
                           mount_point |-> mount_point,
                           fs_type |-> <<fs_type_values[1],
                                         Some(fs_type_values[2])>>,
                           super_opts |-> super_opts])
                ELSE None

\* mountinfo_file: the cgroup records of the lines read, in order
RECURSIVE mountinfo_file(_)
mountinfo_file(lines) ==
    IF lines = <<>> THEN <<>>
    ELSE LET mi == parse_mountinfo_for_line(lines[1])
         IN  (IF mi # None /\ mi[1].fs_type[1] = T_cgroup THEN mi ELSE <<>>)
                 \o mountinfo_file(Tail(lines))

\* The lines a read of the mount table gives: none when the file cannot be
\* opened, and those before the first read error otherwise.
\* io = [open, lines]: whether the open succeeds, and how many lines are
\* read without error
LinesRead(table, io) ==
    IF io.open THEN SubSeq(table, 1, io.lines) ELSE <<>>

\* mountinfo_self, table being the lines of /proc/self/mountinfo
mountinfo_self(table, io) ==
    IF io.open THEN mountinfo_file(LinesRead(table, io)) ELSE <<>>

\* V1::new()
V1_new(table, io) == [mountinfo |-> mountinfo_self(table, io)]

\* the enum Controllers, in the order V1::subsystems asks for them
ControllerKinds ==
    <<"BlkIo", "Mem", "Pids", "CpuSet", "CpuAcct", "Cpu", "Devices",
      "Freezer", "NetCls", "PerfEvent", "NetPrio", "HugeTlb", "Rdma",
      "Systemd">>

\* Controllers::to_string: the name of the controller among the
\* superblock options of its mount
Controllers_to_string(c) ==
    CASE c = "Pids" -> <<"p", "i", "d", "s">>
      [] c = "Mem" -> <<"m", "e", "m", "o", "r", "y">>
      [] c = "CpuSet" -> <<"c", "p", "u", "s", "e", "t">>
      [] c = "CpuAcct" -> <<"c", "p", "u", "a", "c", "c", "t">>
      [] c = "Cpu" -> <<"c", "p", "u">>
      [] c = "Devices" -> <<"d", "e", "v", "i", "c", "e", "s">>
      [] c = "Freezer" -> <<"f", "r", "e", "e", "z", "e", "r">>
      [] c = "NetCls" -> <<"n", "e", "t", "_", "c", "l", "s">>
      [] c = "BlkIo" -> <<"b", "l", "k", "i", "o">>
      [] c = "PerfEvent" -> <<"p", "e", "r", "f", "_", "e", "v", "e", "n", "t">>
      [] c = "NetPrio" -> <<"n", "e", "t", "_", "p", "r", "i", "o">>
      [] c = "HugeTlb" -> <<"h", "u", "g", "e", "t", "l", "b">>
      [] c = "Rdma" -> <<"r", "d", "m", "a">>
      [] c = "Systemd" ->
            <<"n", "a", "m", "e", "=", "s", "y", "s", "t", "e", "m", "d">>

\* Vec::contains
Contains(v, x) == \E i \in 1..Len(v) : v[i] = x

\* find_map over the records: the first one the closure accepts
RECURSIVE FindMount(_, _)
FindMount(mountinfo, name) ==
    IF mountinfo = <<>> THEN None
    ELSE IF /\ mountinfo[1].fs_type[1] = T_cgroup
            /\ Contains(mountinfo[1].super_opts, name)
         THEN Some(<<mountinfo[1].mount_point, mountinfo[1].mount_root>>)
         ELSE FindMount(Tail(mountinfo), name)

\* get_mount_point reading the mount table again at each call
V1_get_mount_point_live(self, controller) ==
    FindMount(mountinfo_self(mounts, [open |-> TRUE, lines |-> Len(mounts)]),
              Controllers_to_string(controller))

\* V1::get_mount_point
V1_get_mount_point(self, controller) ==
    FindMount(self.mountinfo, Controllers_to_string(controller))

\* the Subsystem variant of a controller
SubsystemKind(c) == IF c = "Pids" THEN "Pid" ELSE c

\* the `if let Some((point, root)) = self.get_mount_point(..)` of the
\* controllers of order, one after the other
RECURSIVE V1_push(_, _)
V1_push(self, order) ==
    IF order = <<>> THEN <<>>
    ELSE LET mp == V1_get_mount_point(self, order[1])
         IN  (IF mp # None
              THEN <<Subsystem(SubsystemKind(order[1]), mp[1][1], mp[1][2],
                               FALSE)>>
              ELSE <<>>) \o V1_push(self, Tail(order))

\* V1::subsystems asking for Mem before BlkIo
V1_subsystems_mem_first(self) ==
    V1_push(self, <<"Mem", "BlkIo">> \o SubSeq(ControllerKinds, 3, 14))

\* V1::subsystems
V1_subsystems(self) == V1_push(self, ControllerKinds)

\* Path::parent of a path without "." and ".." components: None for the
\* root and for the empty path
RECURSIVE StripSlashes(_)
StripSlashes(p) ==
    IF Len(p) > 1 /\ p[Len(p)] = "/"
    THEN StripSlashes(SubSeq(p, 1, Len(p) - 1)) ELSE p
Path_parent(path) ==
    LET p == StripSlashes(path)
        slashes == {i \in 1..Len(p) : p[i] = "/"}
    IN  IF p = <<>> \/ p = <<"/">> THEN None
        ELSE IF slashes = {} THEN Some(<<>>)
        ELSE LET last == CHOOSE i \in slashes : \A j \in slashes : j <= i
             IN  IF last = 1 THEN Some(<<"/">>)
                 ELSE Some(StripSlashes(SubSeq(p, 1, last - 1)))

\* what a call that may panic gives
Panic == [panic |-> TRUE, val |-> <<>>]
Returns(v) == [panic |-> FALSE, val |-> v]

\* V1::root: both unwraps panic on None
RECURSIVE V1_root_find(_)
V1_root_find(mountinfo) ==
    IF mountinfo = <<>> THEN Panic
    ELSE IF mountinfo[1].fs_type[1] = T_cgroup
         THEN (IF Path_parent(mountinfo[1].mount_point) = None THEN Panic
               ELSE Returns(Path_parent(mountinfo[1].mount_point)[1]))
         ELSE V1_root_find(Tail(mountinfo))
V1_root(self) == V1_root_find(self.mountinfo)

\* The lines the mount table is made of
L_blkio ==
    <<"1", " ", "0", " ", "0", ":", "1", " ", "/", " ", "/", "c", "/", "b",
      " ", "r", "w", " ", "-", " ", "c", "g", "r", "o", "u", "p", " ", "c",
      " ", "r", "w", ",", "b", "l", "k", "i", "o">>
L_memory ==
    <<"2", " ", "0", " ", "0", ":", "2", " ", "/", " ", "/", "c", "/", "m",
      " ", "r", "w", " ", "-", " ", "c", "g", "r", "o", "u", "p", " ", "c",
      " ", "r", "w", ",", "m", "e", "m", "o", "r", "y">>
L_both ==
    <<"3", " ", "0", " ", "0", ":", "3", " ", "/", "r", " ", "/", "b", "m",
      " ", "r", "w", " ", "-", " ", "c", "g", "r", "o", "u", "p", " ", "c",
      " ", "m", "e", "m", "o", "r", "y", ",", "b", "l", "k", "i", "o">>
L_tmpfs ==
    <<"4", " ", "0", " ", "0", ":", "4", " ", "/", " ", "/", "t", " ", "r",
      "w", " ", "-", " ", "t", "m", "p", "f", "s", " ", "t", " ", "r", "w",
      ",", "b", "l", "k", "i", "o">>
MountLines == {L_blkio, L_memory, L_both, L_tmpfs}
\* the controllers callers ask get_mount_point for
QueryKinds == {"BlkIo", "Mem", "Cpu"}

\* the kernel mounts a file system: a line is added to the mount table
Mount(line) ==
    /\ Len(mounts) < MaxMounts
    /\ mounts' = Append(mounts, line)
    /\ UNCHANGED <<v1, v1seen, v1query, v1result>>

\* the kernel unmounts one: its line leaves the mount table
Unmount(i) ==
    /\ i \in 1..Len(mounts)
    /\ mounts' = SubSeq(mounts, 1, i - 1) \o SubSeq(mounts, i + 1, Len(mounts))
    /\ UNCHANGED <<v1, v1seen, v1query, v1result>>

\* a caller builds a hierarchy with V1::new()
V1New(io) ==
    /\ v1' = Some(V1_new(mounts, io))
    /\ v1seen' = Some(LinesRead(mounts, io))
    /\ v1query' = [name |-> "none", kind |-> "none"]
    /\ v1result' = <<>>
    /\ UNCHANGED mounts

\* a caller calls get_mount_point(kind) on the hierarchy
GetMountPoint(kind) ==
    /\ v1 # None
    /\ v1query' = [name |-> "get_mount_point", kind |-> kind]
    /\ v1result' = V1_get_mount_point(v1[1], kind)
    /\ UNCHANGED <<mounts, v1, v1seen>>

\* a caller calls subsystems() on the hierarchy
V1Subsystems ==
    /\ v1 # None
    /\ v1query' = [name |-> "subsystems", kind |-> "none"]
    /\ v1result' = V1_subsystems(v1[1])
    /\ UNCHANGED <<mounts, v1, v1seen>>

\* a caller calls root() on the hierarchy
V1Root ==
    /\ v1 # None
    /\ v1query' = [name |-> "root", kind |-> "none"]
    /\ v1result' = V1_root(v1[1])
    /\ UNCHANGED <<mounts, v1, v1seen>>

KernelMounts ==
    /\ \E line \in MountLines : Mount(line)
    /\ UNCHANGED <<devVars, v2Vars, fnVars>>
KernelUnmounts ==
    /\ \E i \in 1..Len(mounts) : Unmount(i)
    /\ UNCHANGED <<devVars, v2Vars, fnVars>>
CallV1New ==
    /\ \E io \in {[open |-> FALSE, lines |-> 0]}
                 \cup {[open |-> TRUE, lines |-> n] : n \in 0..Len(mounts)} :
          V1New(io)
    /\ UNCHANGED <<devVars, v2Vars, fnVars>>
CallGetMountPoint ==
    /\ \E kind \in QueryKinds : GetMountPoint(kind)
    /\ UNCHANGED <<devVars, v2Vars, fnVars>>
CallV1Subsystems ==
    /\ V1Subsystems
    /\ UNCHANGED <<devVars, v2Vars, fnVars>>
CallV1Root ==
    /\ V1Root
    /\ UNCHANGED <<devVars, v2Vars, fnVars>>

NextV1 ==
    \/ KernelMounts
    \/ KernelUnmounts
    \/ CallV1New
    \/ CallGetMountPoint
    \/ CallV1Subsystems
    \/ CallV1Root

SpecV1 == Init /\ [][NextV1]_vars

(***************************************************************************)
(* Properties of the per-controller hierarchy (checked under SpecV1).      *)
(***************************************************************************)
BlkIoBeforeMem(subs) ==
    \A i, j \in 1..Len(subs) :
        (subs[i].kind = "BlkIo" /\ subs[j].kind = "Mem") => i < j

\* C3: in the list V1::subsystems() returns, for every snapshot of the
\* mount table, a BlkIo entry stands before a Mem entry whenever both are
\* in the list.
C3_BlkIoBeforeMem ==
    /\ v1 # None => BlkIoBeforeMem(V1_subsystems(v1[1]))
    /\ v1query.name = "subsystems" => BlkIoBeforeMem(v1result)

\* C3 witness: the mount table listed memory before blkio, and
\* subsystems() has returned both
C3_Witness ==
    /\ v1query.name = "subsystems"
    /\ v1seen = Some(<<L_memory, L_blkio>>)
    /\ Len(v1result) = 2
    /\ v1result[1].kind = "BlkIo" /\ v1result[2].kind = "Mem"

\* C10: the mount table is read at V1::new() only.  Whatever mounts,
\* unmounts and calls have followed V1::new(), the snapshot of the instance
\* is the cgroup records of the lines V1::new() read, and what
\* get_mount_point(kind), subsystems() and root() have returned is what
\* those lines give, not what the mount table holds now.
C10_SnapshotOnlyAtConstruction ==
    v1 # None =>
        LET snap == mountinfo_file(v1seen[1])
        IN  /\ v1[1].mountinfo = snap
            /\ v1query.name = "get_mount_point" =>
                  v1result = FindMount(snap, Controllers_to_string(v1query.kind))
            /\ v1query.name = "subsystems" =>
                  v1result = V1_subsystems([mountinfo |-> snap])
            /\ v1query.name = "root" =>
                  v1result = V1_root([mountinfo |-> snap])

\* C10 witness: every line has left the mount table since V1::new(), and
\* get_mount_point, called after that, has still found the mount
C10_Witness ==
    /\ v1 # None
    /\ mounts = <<>>
    /\ v1query.name = "get_mount_point"
    /\ v1result # None

(***************************************************************************)
(* Properties of the unified hierarchy (checked under SpecV2).             *)
(***************************************************************************)
\* A text less its leading and trailing white space, from the places of
\* its other characters
Inked(s) == {i \in 1..Len(s) : s[i] \notin WhiteSpace}
Trimmed(s) ==
    IF Inked(s) = {} THEN <<>>
    ELSE SubSeq(s, CHOOSE i \in Inked(s) : \A j \in Inked(s) : i <= j,
                   CHOOSE i \in Inked(s) : \A j \in Inked(s) : i >= j)
\* The k-th of the pieces the separators at the places S cut l into
PieceAt(l, S, k) ==
    LET sep(j) == CHOOSE i \in S : Cardinality({x \in S : x < i}) = j - 1
        from == IF k = 1 THEN 1 ELSE sep(k - 1) + 1
        to == IF k = Cardinality(S) + 1 THEN Len(l) ELSE sep(k) - 1
    IN  SubSeq(l, from, to)
Blanks(l) == {i \in 1..Len(l) : l[i] = " "}
\* the names V2 knows, and the Subsystem of each
KnownNames ==
    {T_cpu, T_io, T_cpuset, T_memory, T_pids, T_freezer, T_hugetlb}
IsKnownName(name) == name \in KnownNames
KindOfName(name) ==
    CASE name = T_cpu -> "Cpu"
      [] name = T_io -> "BlkIo"
      [] name = T_cpuset -> "CpuSet"
      [] name = T_memory -> "Mem"
      [] name = T_pids -> "Pid"
      [] name = T_freezer -> "Freezer"
      [] name = T_hugetlb -> "HugeTlb"

\* C4: when cgroup.controllers is readable, V2::subsystems() returns one
\* Subsystem per known name (cpu, io, cpuset, memory, pids, freezer,
\* hugetlb) among the tokens of the trimmed text split on single spaces,
\* in the order of the tokens, then one more Freezer entry, which is the
\* last element; the other tokens, the empty one included, give no entry.
\* Every entry is rooted at the unified mount point, with an empty
\* relative path, in unified mode.
C4_V2ListsKnownTokensThenFreezer ==
    (v2file # None /\ v2file[1].ok) =>
        LET t == Trimmed(v2file[1].val)
            toks == [k \in 1..(Cardinality(Blanks(t)) + 1) |->
                        PieceAt(t, Blanks(t), k)]
            known == SelectSeq(toks, IsKnownName)
            out == v2result[1]
        IN  /\ Len(out) = Len(known) + 1
            /\ \A k \in 1..Len(known) :
                  out[k] = Subsystem(KindOfName(known[k]),
                                     UNIFIED_MOUNTPOINT, <<>>, TRUE)
            /\ out[Len(out)] =
                  Subsystem("Freezer", UNIFIED_MOUNTPOINT, <<>>, TRUE)

\* C4 witness: a text that names memory before io and ends with a line
\* feed has given Mem, BlkIo, Freezer
C4_Witness ==
    /\ v2file # None /\ v2file[1].ok
    /\ v2file[1].val # <<>>
    /\ v2file[1].val[Len(v2file[1].val)] = "\n"
    /\ Len(v2result[1]) = 3
    /\ v2result[1][1].kind = "Mem"
    /\ v2result[1][2].kind = "BlkIo"
    /\ v2result[1][3].kind = "Freezer"

\* C5: when cgroup.controllers cannot be read, V2::subsystems() returns
\* the empty list: no error, and no Freezer entry.
C5_V2UnreadableGivesEmptyList ==
    (v2file # None /\ ~v2file[1].ok) => v2result = Some(<<>>)

\* C5 witness: the read has failed and subsystems() has returned
C5_Witness ==
    /\ v2file # None /\ ~v2file[1].ok
    /\ v2result = Some(<<>>)

(***************************************************************************)
(* The parsers and conversions, called on their own with every input.      *)
(***************************************************************************)
\* Mount lines: the half before the separator (six fields, five, seven,
\* six within white space, six with an empty fourth one)
FirstSegments ==
    {<<"1", " ", "2", " ", "0", ":", "1", " ", "/", "r", " ", "/", "m", " ",
       "r", "w">>,
     <<"1", " ", "2", " ", "0", ":", "1", " ", "/", "r", " ", "/", "m">>,
     <<"1", " ", "2", " ", "0", ":", "1", " ", "/", "r", " ", "/", "m", " ",
       "r", "w", " ", "s", ":", "1">>,
     <<"\t", "1", " ", "2", " ", "0", ":", "1", " ", "/", "r", " ", "/",
       "m", " ", "r", "w", " ">>,
     <<"1", " ", "2", " ", "0", ":", "1", " ", " ", "/", "m", " ", "r", "w">>}
\* what stands between the halves: the separator, two of them overlapping,
\* and a near miss
Dashes == {<<" ", "-", " ">>, <<" ", "-", " ", "-", " ">>, <<" ", "-", "-", " ">>}
\* the file system type of the line
FsTypeTokens ==
    {<<"c", "g", "r", "o", "u", "p">>, <<"t", ".", "1">>,
     <<"a", ".", "b", ".", "c">>, <<"t", ".">>, <<"t", ".", "1", "\t">>}
\* what follows the type: source and options, no options, one field more,
\* empty options between commas, a tab after the options, an empty source
TypeTails ==
    {<<" ", "c", " ", "r", "w", ",", "b", "l", "k", "i", "o">>,
     <<" ", "c">>,
     <<" ", "c", " ", "r", "w", ",", "b", "l", "k", "i", "o", " ", "x">>,
     <<" ", "c", " ", ",", "a", ",", ",", "b">>,
     <<" ", "c", " ", "r", "w", ",", "a", "\t", " ", "x">>,
     <<" ", " ", "r", "w">>}
\* the lines: with one separator, with none, with two
MountinfoLines ==
    {a \o d \o f \o b :
        a \in FirstSegments, d \in Dashes, f \in FsTypeTokens,
        b \in TypeTails}
      \cup FirstSegments
      \cup {a \o <<" ", "-", " ">> \o f \o b \o <<" ", "-", " ", "x">> :
              a \in FirstSegments, f \in FsTypeTokens, b \in TypeTails}

\* assert_eq! compiled out, as debug_assert_eq! is in a release build
assert_eq_compiled_out(left, right) == TRUE

\* assert_eq!(left, right): TRUE when the assertion passes; it panics
\* otherwise
assert_eq(left, right) == left = right

\* The controller a Subsystem::Devices wraps
WrappedDevices(sub) == DevicesController_new(sub.point, sub.root)

\* What MaybeUninit::uninit().assume_init() can give as a
\* &DevicesController: undefined behaviour, so a reference to any
\* controller, or a crash
UninitOutcomes ==
    {[res |-> Returns(c), uninit |-> TRUE] : c \in Controllers0}
        \cup {[res |-> Panic, uninit |-> TRUE]}

\* impl From<&Subsystem> for &DevicesController: how the call ends (with a
\* reference or a panic), and whether it went through assume_init; u is
\* what assume_init gives when it is reached
From_Subsystem(sub, u) ==
    IF sub.kind = "Devices"
    THEN [res |-> Returns(WrappedDevices(sub)), uninit |-> FALSE]
    ELSE IF ~assert_eq(1, 0) THEN [res |-> Panic, uninit |-> FALSE]
    ELSE u

\* The subsystems handed to the conversion: every variant
Subsystems ==
    {Subsystem(SubsystemKind(ControllerKinds[k]), <<"/", "d">>, r, v)
        : k \in 1..Len(ControllerKinds), r \in {<<"/">>, <<"/", "g">>},
          v \in BOOLEAN}

\* Permission strings: every string of up to MaxPermLen characters, the
\* three codes, an unknown letter and an upper-case code among them
PermAlphabet == {"r", "w", "m", "q", "R"}
PermStrings == SeqsUpTo(PermAlphabet, MaxPermLen)

\* a caller calls parse_mountinfo_for_line(line)
ParseMountinfoForLine(line) ==
    /\ call' = [name |-> "parse_mountinfo_for_line", arg |-> line]
    /\ fnRet' = parse_mountinfo_for_line(line)

\* a caller calls DevicePermissions::from_str(s)
FromStr(s) ==
    /\ call' = [name |-> "from_str", arg |-> s]
    /\ fnRet' = DevicePermissions_from_str(s)

\* a caller converts a &Subsystem into a &DevicesController
FromSubsystem(sub, u) ==
    /\ call' = [name |-> "from", arg |-> sub]
    /\ fnRet' = From_Subsystem(sub, u)

\* a caller calls parse_device_line(line, allow)
ParseDeviceLine(line, allow) ==
    /\ call' = [name |-> "parse_device_line", arg |-> line]
    /\ fnRet' = parse_device_line(line, allow)

\* the caller takes what the call returned
TakeReturn ==
    /\ call # NoCall
    /\ call' = NoCall
    /\ fnRet' = <<>>

CallParseMountinfoForLine ==
    /\ call = NoCall
    /\ \E line \in MountinfoLines : ParseMountinfoForLine(line)
    /\ UNCHANGED <<devVars, v1Vars, v2Vars>>
CallFromStr ==
    /\ call = NoCall
    /\ \E s \in PermStrings : FromStr(s)
    /\ UNCHANGED <<devVars, v1Vars, v2Vars>>
CallFromSubsystem ==
    /\ call = NoCall
    /\ \E sub \in Subsystems, u \in UninitOutcomes : FromSubsystem(sub, u)
    /\ UNCHANGED <<devVars, v1Vars, v2Vars>>
CallParseDeviceLine ==
    /\ call = NoCall
    /\ \E line \in OneLineFiles \cup SampleLines, allow \in BOOLEAN :
          ParseDeviceLine(line, allow)
    /\ UNCHANGED <<devVars, v1Vars, v2Vars>>
ReturnFn ==
    /\ TakeReturn
    /\ UNCHANGED <<devVars, v1Vars, v2Vars>>

NextParse ==
    \/ CallParseMountinfoForLine
    \/ CallFromStr
    \/ CallFromSubsystem
    \/ CallParseDeviceLine
    \/ ReturnFn

SpecParse == Init /\ [][NextParse]_vars

(***************************************************************************)
(* Properties of the parsers and conversions (checked under SpecParse).    *)
(***************************************************************************)
\* The places where " - " starts in a line; the first of them; whether the
\* line is cut in exactly two by " - " (no second " - " after the first)
PatternStarts(l) ==
    {i \in 1..(Len(l) - 2) : l[i] = " " /\ l[i + 1] = "-" /\ l[i + 2] = " "}
FirstCut(l) ==
    CHOOSE i \in PatternStarts(l) : \A j \in PatternStarts(l) : i <= j
CutsInTwo(l) ==
    /\ PatternStarts(l) # {}
    /\ \A j \in PatternStarts(l) : j < FirstCut(l) + 3
\* The two segments, trimmed
Before(l) == Trimmed(SubSeq(l, 1, FirstCut(l) - 1))
After(l) == Trimmed(SubSeq(l, FirstCut(l) + 3, Len(l)))
\* The space-separated fields of a segment (numbered from 1)
FieldCount(seg) == Cardinality(Blanks(seg)) + 1
Field(seg, k) == PieceAt(seg, Blanks(seg), k)
\* A token split on a character, in order
Marks(tok, c) == {i \in 1..Len(tok) : tok[i] = c}
SplitOn(tok, c) ==
    [k \in 1..(Cardinality(Marks(tok, c)) + 1) |->
        PieceAt(tok, Marks(tok, c), k)]
\* No record for a line of the wrong shape
WrongShapeGivesNone ==
    LET l == call.arg
    IN  (\/ ~CutsInTwo(l)
         \/ FieldCount(Before(l)) < 6
         \/ FieldCount(After(l)) < 3) => fnRet = None

\* C11 as claimed: parse_mountinfo_for_line returns None whenever the line
\* does not split on " - " into exactly two segments, or the trimmed first
\* segment has fewer than 6 space-separated fields, or the trimmed second
\* one fewer than 3; a record it returns has mount_root = field[3] and
\* mount_point = field[4] of the first segment, and super_opts = field[2]
\* of the second segment split on ',' in order.
C11_MountLineShapeAsClaimed ==
    call.name = "parse_mountinfo_for_line" =>
        /\ WrongShapeGivesNone
        /\ fnRet # None =>
              LET l == call.arg
              IN  /\ CutsInTwo(l)
                  /\ fnRet[1].mount_root = Field(Before(l), 4)
                  /\ fnRet[1].mount_point = Field(Before(l), 5)
                  /\ fnRet[1].super_opts = SplitOn(Field(After(l), 3), ",")

\* C11, amended: as claimed, but super_opts is field[2] of the second
\* segment less its leading and trailing white space, split on ','.
C11_MountLineShape ==
    call.name = "parse_mountinfo_for_line" =>
        /\ WrongShapeGivesNone
        /\ fnRet # None =>
              LET l == call.arg
              IN  /\ CutsInTwo(l)
                  /\ fnRet[1].mount_root = Field(Before(l), 4)
                  /\ fnRet[1].mount_point = Field(Before(l), 5)
                  /\ fnRet[1].super_opts =
                        SplitOn(Trimmed(Field(After(l), 3)), ",")

\* C11 witness: a record has been returned for a line of seven and four
\* fields whose options end with a tab
C11_Witness ==
    /\ call.name = "parse_mountinfo_for_line"
    /\ fnRet # None
    /\ FieldCount(Before(call.arg)) = 7
    /\ FieldCount(After(call.arg)) = 4
    /\ Field(After(call.arg), 3) # Trimmed(Field(After(call.arg), 3))
    /\ Len(fnRet[1].super_opts) = 2

\* A mount line of the shape parse_mountinfo_for_line asks for
HasShape(l) ==
    /\ CutsInTwo(l)
    /\ FieldCount(Before(l)) >= 6
    /\ FieldCount(After(l)) >= 3
\* The first and the last piece of a token cut at its first '.'
FirstDot(tok) ==
    CHOOSE i \in Marks(tok, ".") : \A j \in Marks(tok, ".") : i <= j
UpToDot(tok) == SubSeq(tok, 1, FirstDot(tok) - 1)
PastDot(tok) == SubSeq(tok, FirstDot(tok) + 1, Len(tok))

C13_FromStrRoundTrip ==
    call.name = "from_str" =>
        LET s == call.arg
            known == \A i \in 1..Len(s) : s[i] \in {"r", "w", "m"}
        IN  /\ (s # <<>> /\ known) =>
                  /\ fnRet.ok
                  /\ Len(fnRet.val) = Len(s)
                  /\ \A i \in 1..Len(s) :
                        /\ fnRet.val[i] \in DevicePerms
                        /\ DevicePermissions_to_char(fnRet.val[i]) = s[i]
            /\ ~known =>
                  /\ ~fnRet.ok
                  /\ fnRet.val = <<>>
                  /\ fnRet.err.kind = "ParseError"

\* C13 witness: "wrw", out of order and with a repetition, has been
\* decoded
C13_Witness ==
    /\ call.name = "from_str"
    /\ call.arg = <<"w", "r", "w">>
    /\ fnRet.ok
    /\ fnRet.val = <<"Write", "Read", "Write">>

\* C14: the conversion of a &Subsystem into a &DevicesController returns
\* the wrapped controller when the Subsystem is a Devices one; for every
\* other variant it ends in a panic: it returns no reference and does not
\* get to assume_init on the uninitialized value.
C14_FromSubsystemSignalsMismatch ==
    call.name = "from" =>
        /\ call.arg.kind = "Devices" =>
              /\ ~fnRet.res.panic
              /\ fnRet.res.val = WrappedDevices(call.arg)
              /\ ~fnRet.uninit
        /\ call.arg.kind # "Devices" =>
              /\ fnRet.res.panic
              /\ fnRet.res.val = <<>>
              /\ ~fnRet.uninit

\* C14 witness: the conversion of a Mem subsystem has panicked
C14_Witness ==
    /\ call.name = "from"
    /\ call.arg.kind = "Mem"
    /\ fnRet.res.panic

\* The first token of a line of devices.list: what stands before its first
\* space or colon
FirstToken(l) ==
    IF Separators(l) = {} THEN l
    ELSE SubSeq(l, 1, (CHOOSE i \in Separators(l) :
                          \A j \in Separators(l) : i <= j) - 1)
TypeCodes == {<<"a">>, <<"c">>, <<"b">>}

\* C15: a line of devices.list parses only if its first token is exactly
\* one of the one-character codes a, c, b; with any other first token, the
\* empty one and a longer one that starts with a, c or b included, the
\* line fails with a parse error.
C15_FirstTokenIsOneTypeCode ==
    call.name = "parse_device_line" =>
        /\ fnRet.ok => FirstToken(call.arg) \in TypeCodes
        /\ FirstToken(call.arg) \notin TypeCodes =>
              /\ ~fnRet.ok
              /\ fnRet.err = Error_new("ParseError")

=============================================================================
